---- MODULE Spec2Model ----
(***************************************************************************)
(* Model of the iterative relevance-refining search of wasilak/rag:        *)
(* SearchOrchestrator.perform_iterative_search (libs/search_orchestrator)  *)
(* and its twin RAGOrchestrator.search (libs/rag_orchestrator), with the   *)
(* judge (evaluate_results) and its line parser.                           *)
(*                                                                         *)
(* Scores are kept in hundredths: 70 is the float 0.70.  Texts are strings.*)
(* Every call of collection.query returns a new object, so a QueryResult   *)
(* carries the ordinal of the call that produced it.                       *)
(*                                                                         *)
(* Further specifications over the same variables: the judge's line parser *)
(* alone (SpecParse), format_footnotes of libs/utils (SpecFoot), and the   *)
(* web chat of libs/web and libs/commands/web/web (SpecWeb, SpecWebSolo,   *)
(* SpecWebLive), where a conversation_history is a reference into heap.    *)
(***************************************************************************)
EXTENDS Integers, Sequences, FiniteSets, TLC

\* ------------------------------------------------------------------ bounds
\* largest max_iterations the orchestrator is constructed with
MaxIterations == 3
\* most lines of a judge response given to the parser
MaxLines == 4
\* most metadata dicts given to format_footnotes
MaxMetadatas == 3
\* send_message events received by the web server, over all sessions
MaxTurns == 2
\* chunks of one model stream
MaxChunks == 2

\* ------------------------------------------------------- program constants
\* n_results passed to collection.query
TopK == 4
\* default of the constructor parameter min_relevance_score (0.7)
DefaultMinRelevanceScore == 70
\* initial best_score (0.0), also the score of every failed evaluation
ZeroScore == 0

\* ------------------------------------------------------------ value spaces
\* Python's None
None == [none |-> TRUE]

\* query texts: the user's query and the texts a judge may propose
QueryTexts == {"q0", "q1"}

\* the texts a judge may put after "SCORE:" and what float() makes of them;
\* any other text makes float() raise ValueError
ScoreTexts == {"-0.5", "0.0", "0.4", "0.75", "0.8", "0.9"}

\* every text of the model that float() accepts
FloatTexts == ScoreTexts \cup {"0.85"}

Float(t) ==
    CASE t = "-0.5" -> -50
      [] t = "0.85" -> 85
      [] t = "0.0"  -> 0
      [] t = "0.4"  -> 40
      [] t = "0.75" -> 75
      [] t = "0.8"  -> 80
      [] t = "0.9"  -> 90

\* mutant: the comparison with "none" is case-sensitive
Lower_Identity(t) == t

\* str.lower() on the texts of the model
Lower(t) ==
    CASE t = "None" -> "none"
      [] t = "NONE" -> "none"
      [] OTHER      -> t

\* str.strip() on the texts of the model
Strip(t) ==
    CASE t = " 0.85" -> "0.85"
      [] t = " 0.4"  -> "0.4"
      [] t = " high" -> "high"
      [] t = " good" -> "good"
      [] t = " bad " -> "bad"
      [] t = " None" -> "None"
      [] t = " NONE" -> "NONE"
      [] t = " none" -> "none"
      [] t = " q1"   -> "q1"
      [] t = "A "    -> "A"
      [] t = " "     -> ""
      [] OTHER       -> t

\* values of min_relevance_score the orchestrator is constructed with
MinRelevanceScores == {DefaultMinRelevanceScore, 80}

\* number of documents a retrieval may return: none, or n_results
DocCounts == {0, TopK}

\* the QueryResult returned by the k-th call of collection.query, holding n documents
QueryResult(k, n) ==
    [call      |-> k,
     documents |-> <<[i \in 1..n |-> i]>>,
     metadatas |-> <<[i \in 1..n |-> i]>>,
     distances |-> <<[i \in 1..n |-> i]>>]

\* the literal built when the fallback retrieval raises
EmptyQueryResult ==
    [call      |-> 0,
     documents |-> <<<<>>>>,
     metadatas |-> <<<<>>>>,
     distances |-> <<<<>>>>]

\* ------------------------------------------------------------------- judge
Line(p, v) == [prefix |-> p, value |-> v]

\* mutant: an analysis or a refined query set by an earlier line is not overwritten
ParseLine_KeepFirst(ev, line, q) ==
    IF line.prefix = "SCORE:"
    THEN [ev EXCEPT !.score = IF Strip(line.value) \in FloatTexts
                              THEN Float(Strip(line.value)) ELSE ZeroScore]
    ELSE IF line.prefix = "ANALYSIS:"
    THEN IF ev.analysis # "No analysis provided" THEN ev
         ELSE [ev EXCEPT !.analysis = Strip(line.value)]
    ELSE IF line.prefix = "REFINED_QUERY:"
    THEN IF Lower(Strip(line.value)) # "none" /\ ev.refined_query = q
         THEN [ev EXCEPT !.refined_query = Strip(line.value)]
         ELSE ev
    ELSE ev

\* one pass of the parser's for-loop body over a line.  A line is the prefix it
\* starts with ("OTHER" when it starts with none of the three) and the rest of
\* it, which is what line.replace(prefix, "") leaves.
ParseLine(ev, line, q) ==
    IF line.prefix = "SCORE:"
    THEN [ev EXCEPT !.score = IF Strip(line.value) \in FloatTexts
                              THEN Float(Strip(line.value)) ELSE ZeroScore]
    ELSE IF line.prefix = "ANALYSIS:"
    THEN [ev EXCEPT !.analysis = Strip(line.value)]
    ELSE IF line.prefix = "REFINED_QUERY:"
    THEN IF Lower(Strip(line.value)) # "none"
         THEN [ev EXCEPT !.refined_query = Strip(line.value)]
         ELSE ev
    ELSE ev

RECURSIVE ParseLines(_, _, _)
ParseLines(ev, lines, q) ==
    IF lines = <<>> THEN ev
    ELSE ParseLines(ParseLine(ev, Head(lines), q), Tail(lines), q)

\* the parsing part of evaluate_results
ParseResponse(lines, q) ==
    ParseLines([score |-> ZeroScore, analysis |-> "No analysis provided",
                refined_query |-> q], lines, q)

\* what the chat-completion call does: raise, return no content, or return lines
LLMRaises == [kind |-> "raise"]
LLMEmpty == [kind |-> "empty"]
LLMContent(lines) == [kind |-> "content", lines |-> lines]

\* mutant: a failed model call gives no query back
EvaluateResponse_NoQuery(resp, q) ==
    IF resp.kind = "raise"
    THEN [score |-> ZeroScore, analysis |-> "Evaluation error", refined_query |-> ""]
    ELSE IF resp.kind = "empty"
    THEN [score |-> ZeroScore, analysis |-> "Evaluation failed", refined_query |-> ""]
    ELSE ParseResponse(resp.lines, q)

\* evaluate_results from the model call on: never raises
EvaluateResponse(resp, q) ==
    IF resp.kind = "raise"
    THEN [score |-> ZeroScore, analysis |-> "Evaluation error", refined_query |-> q]
    ELSE IF resp.kind = "empty"
    THEN [score |-> ZeroScore, analysis |-> "Evaluation failed", refined_query |-> q]
    ELSE ParseResponse(resp.lines, q)

\* the responses the judge gives in a search: the three lines in the requested
\* format, a text with none of the prefixes, no content, or a failed call
JudgeResponses ==
    {LLMRaises, LLMEmpty, LLMContent(<<Line("OTHER", "hello")>>)}
    \cup {LLMContent(<<Line("SCORE:", s), Line("ANALYSIS:", "good"),
                       Line("REFINED_QUERY:", r)>>) :
            s \in ScoreTexts \cup {"high"}, r \in QueryTexts \cup {"None"}}

\* ------------------------------------------------------------------- state
VARIABLES
    max_iterations,       \* self.max_iterations
    min_relevance_score,  \* self.min_relevance_score
    query,                \* the argument of perform_iterative_search
    pc,                   \* position in perform_iterative_search
    iteration,            \* the for-loop variable (0-based)
    iterations,           \* List[SearchIteration]
    current_query,
    best_results,
    best_score,
    results,
    queries,              \* the calls of collection.query made so far
    evaluations,          \* the calls of evaluate_results made so far
    returned,             \* the SearchResult returned, None before the return
    \* -- evaluate_results on one response text (parser)
    content,              \* response.choices[0].message.content, as its lines
    judged_query,         \* the argument query of evaluate_results
    evaluation,           \* the tuple evaluate_results returned, None before
    \* -- format_footnotes on one list of metadata dicts
    metadatas,            \* the argument of format_footnotes
    footnotes,            \* [lines |-> the lines of the string returned], None before
    \* -- the web chat (libs/web.py and libs/commands/web/web.py)
    module,               \* which of the two web modules the server runs
    max_history,          \* WebChatManager.max_history
    chat_sessions,        \* the global dict sid -> {current_chat_id, conversation_history}
    heap,                 \* the list objects: a conversation_history is a reference
    storage,              \* ChatStorage: the messages of every stored chat
    manager,              \* chat_manager.current_chat_id / .conversation_history (libs/web.py)
    handler,              \* per sid: the running handle_message and its generator
    connected,            \* per sid: the client is still connected
    events,               \* per sid: what the handler emitted in its last turn
    turns,                \* send_message events received so far
    \* -- the answer prompt of libs/search.py
    retrieved,            \* the best_results the answer prompt is assembled from
    system_prompt,        \* the numbered documents and the footnote block of the prompt, None before
    \* -- the SQLite store of libs/chat_storage.py
    chats_table,          \* the rows of the table chats of the database
    messages_table,       \* the rows of the table messages, in insertion order
    uuids,                \* the number of ids uuid4 has issued
    last_call,            \* the last ChatStorage call, its arguments and what it returned
    \* -- the model cache of libs/list_models.py
    cached_models,        \* _cached_models: per provider the cached list, None where there is no entry
    manager_set,          \* _model_manager is not None
    last_listing          \* the last call of process_list_models, what it did and returned

searchVars == <<max_iterations, min_relevance_score, query, pc, iteration,
                iterations, current_query, best_results, best_score, results,
                queries, evaluations, returned>>

parseVars == <<content, judged_query, evaluation>>

footVars == <<metadatas, footnotes>>

webVars == <<module, max_history, chat_sessions, heap, storage, manager, handler,
             connected, events, turns>>

promptVars == <<retrieved, system_prompt>>

storeVars == <<chats_table, messages_table, uuids, last_call>>

cacheVars == <<cached_models, manager_set, last_listing>>

\* the variables the search, the parser, the footnote formatter do not touch
outsideSearch == <<parseVars, footVars, webVars, promptVars, storeVars, cacheVars>>
outsideParse == <<searchVars, footVars, webVars, promptVars, storeVars, cacheVars>>
outsideFoot == <<searchVars, parseVars, webVars, promptVars, storeVars, cacheVars>>
outsideWeb == <<searchVars, parseVars, footVars, promptVars, storeVars, cacheVars>>
outsidePrompt == <<searchVars, parseVars, footVars, webVars, storeVars, cacheVars>>
outsideStore == <<searchVars, parseVars, footVars, webVars, promptVars, cacheVars>>
outsideCache == <<searchVars, parseVars, footVars, webVars, promptVars, storeVars>>

vars == <<searchVars, parseVars, footVars, webVars, promptVars, storeVars, cacheVars>>

config == <<max_iterations, min_relevance_score, query>>

\* ----------------------------------------------------------- pure helpers
\* "if relevance_score > best_score"
IsBetter(score, best) == score > best

\* mutant: equality does not stop the loop
IsSufficient_Strict(score, threshold) == score > threshold

\* "if relevance_score >= self.min_relevance_score"
IsSufficient(score, threshold) == score >= threshold

\* mutant: the refinement check is missing
NoRefinement_Never(q, refined) == FALSE

\* "if current_query == refined_query"
NoRefinement(q, refined) == q = refined

\* mutant: the fallback is made whenever no round set a best result
NeedsFallback_NoBest(best, res) == best = None

\* "if best_results is None and results is None"
NeedsFallback(best, res) == best = None /\ res = None

\* mutant: the last retrieved results are not used when no best result exists
BestOrResults_NoElse(best, res) == best

\* "best_results if best_results is not None else results"
BestOrResults(best, res) == IF best # None THEN best ELSE res

\* mutant: the loop runs one round too many
RangeExhausted_OffByOne(i, max) == i >= max

\* "for iteration in range(self.max_iterations)": no further round after round i + 1
RangeExhausted(i, max) == i + 1 >= max

\* mutant: the loop body has no exception handler
OnLoopException_Propagate == "raised"

\* "except Exception as e: ... break": where an exception raised in the loop body
\* leads ("raised" would be the exception leaving perform_iterative_search)
OnLoopException == "finalize"

SearchIteration_ZeroBased(q, res, ev, n) ==
    [query |-> q, results |-> res, relevance_score |-> ev.score,
     iteration |-> n - 1, refined_query |-> ev.refined_query, analysis |-> ev.analysis]

\* SearchIteration(query=current_query, results=results, relevance_score=score,
\* iteration=iteration + 1, refined_query=refined_query, analysis=analysis)
SearchIteration(q, res, ev, n) ==
    [query |-> q, results |-> res, relevance_score |-> ev.score,
     iteration |-> n, refined_query |-> ev.refined_query, analysis |-> ev.analysis]

SearchResult(best, score, its, final, original) ==
    [best_results |-> best, best_score |-> score, iterations |-> its,
     final_query |-> final, original_query |-> original]

QueryCall(text, place, outcome) ==
    [query_text |-> text, place |-> place, outcome |-> outcome]

EvaluateCall(text, resp, outcome) ==
    [query_text |-> text, response |-> resp, outcome |-> outcome]

\* ---------------------------------------------------------- web chat values
\* the Socket.IO session ids (request.sid) of the model
Sids == {"s1", "s2"}

\* libs/web.py keeps the state of the running turn in the one chat_manager;
\* libs/commands/web/web.py passes the sid to the manager
SharedManager == "libs.web"
PerSession == "libs.commands.web.web"
Modules == {SharedManager, PerSession}

\* values of --max-history the server is started with
MaxHistories == {2, 3}

\* data["message"] as session s sends it: a text of its own, or blanks only
UserText(s) == IF s = "s1" THEN "m1" ELSE "m2"
RawMessages(s) == {UserText(s), " "}

\* chunk.choices[0].delta.content of a stream chunk; "" is a chunk without content
ChunkTexts == {"", "a"}

\* the model stream as the generator has seen it: the chunks received, and
\* whether it is still open, has ended, or has raised
Stream(chunks, status) == [chunks |-> chunks, status |-> status]

NoStream == Stream(<<>>, "none")

\* str(e) of the exception of the model
Boom == "boom"
\* f"Error: {str(e)}"
ErrorText(e) == "Error: " \o e

Message(role, text) == [role |-> role, content |-> text]

\* the id storage.create_chat returns for the n-th chat created
ChatId(n) == [id |-> n]

\* full_response after all the chunks: the contents appended in order
RECURSIVE Concat(_)
Concat(chunks) ==
    IF chunks = <<>> THEN "" ELSE Head(chunks) \o Concat(Tail(chunks))

\* emit(...) towards a client: Socket.IO drops the packet of a sid that is gone
\* and returns; it raises nothing into the handler
EmitOutcome_RaisesWhenGone(isConnected) == IF isConnected THEN "sent" ELSE "raised"

\* emit("message_chunk", ...) as called from handle_message
EmitOutcome(isConnected) == IF isConnected THEN "sent" ELSE "dropped"

Emit(evs, name, data, isConnected) ==
    Append(evs, [event |-> name, data |-> data,
                 delivered |-> EmitOutcome(isConnected) = "sent"])

\* self._save_message: a chat is created when there is no current chat id, the
\* message is added to the current chat
SaveMessage(store, current_chat_id, role, text) ==
    IF current_chat_id = None
    THEN [storage |-> Append(store, <<Message(role, text)>>),
          current_chat_id |-> ChatId(Len(store) + 1),
          new_chat_id |-> ChatId(Len(store) + 1)]
    ELSE [storage |-> [store EXCEPT ![current_chat_id.id] =
                          Append(@, Message(role, text))],
          current_chat_id |-> current_chat_id,
          new_chat_id |-> None]

\* _trim_conversation_history / the trim of generate_response_stream
Trim(history, max) ==
    IF Len(history) > max
    THEN SubSeq(history, Len(history) - max + 1, Len(history))
    ELSE history

\* the except branch of the streaming loop: yield the error text, return None;
\* the history is left as it is
OnStreamException_KeepPartial(history, full_response) ==
    IF full_response = "" THEN history
    ELSE Append(history, Message("assistant", full_response))

OnStreamException(history, full_response) == history

\* StopIteration.value of stream.send(None) once the for-loop has exhausted the
\* generator: the loop consumed the StopIteration that carried the return value,
\* a finished generator raises a bare StopIteration
SendAfterLoop(returned_value) == None

\* the locals of a handle_message and of its generate_response_stream
IdleHandler ==
    [pc |-> "idle",
     user_message |-> "",
     current_chat_id |-> None,
     conversation_history |-> 0,
     new_chat_id |-> None,
     stream |-> NoStream,
     full_response |-> "",
     messages |-> None,
     returned |-> None]

\* ------------------------------------------------------------------- Init
\* no response is being parsed
ParseIdle ==
    /\ content = <<>>
    /\ judged_query = "q0"
    /\ evaluation = None

\* The state at the start of the for-loop.  max_iterations is taken positive (the
\* default is 3 and libs/search.py, the only caller, keeps it).
SearchInit ==
    /\ max_iterations \in 1..MaxIterations
    /\ min_relevance_score \in MinRelevanceScores
    /\ query = "q0"
    /\ pc = "query"
    /\ iteration = 0
    /\ iterations = <<>>
    /\ current_query = query
    /\ best_results = None
    /\ best_score = ZeroScore
    /\ results = None
    /\ queries = <<>>
    /\ evaluations = <<>>
    /\ returned = None

\* no search is running
SearchIdle ==
    /\ max_iterations = 1
    /\ min_relevance_score = DefaultMinRelevanceScore
    /\ query = "q0"
    /\ pc = "idle"
    /\ iteration = 0
    /\ iterations = <<>>
    /\ current_query = "q0"
    /\ best_results = None
    /\ best_score = ZeroScore
    /\ results = None
    /\ queries = <<>>
    /\ evaluations = <<>>
    /\ returned = None

\* no footnotes are being formatted
FootIdle ==
    /\ metadatas = <<>>
    /\ footnotes = None

\* no web server is running
WebIdle ==
    /\ module = PerSession
    /\ max_history = 2
    /\ chat_sessions = [s \in Sids |-> [current_chat_id |-> None,
                                         conversation_history |-> 0]]
    /\ heap = <<>>
    /\ storage = <<>>
    /\ manager = [current_chat_id |-> None, conversation_history |-> 0]
    /\ handler = [s \in Sids |-> IdleHandler]
    /\ connected = [s \in Sids |-> FALSE]
    /\ events = [s \in Sids |-> <<>>]
    /\ turns = MaxTurns

\* the answer prompt of libs/search.py: nothing is running
PromptIdle ==
    /\ retrieved = None
    /\ system_prompt = None

\* the SQLite store of libs/chat_storage.py: nothing is running
StoreIdle ==
    /\ chats_table = {}
    /\ messages_table = <<>>
    /\ uuids = 0
    /\ last_call = None

\* the model cache of libs/list_models.py: nothing is running
CacheIdle ==
    /\ cached_models = [p \in {"ollama", "openai", "gemini"} |-> None]
    /\ manager_set = FALSE
    /\ last_listing = None

Init == SearchInit /\ ParseIdle /\ FootIdle /\ WebIdle /\ PromptIdle /\ StoreIdle /\ CacheIdle

\* ---------------------------------------------------------------- actions
\* results = self.collection.query(query_texts=[current_query], n_results=4)
CollectionQuery ==
    /\ pc = "query"
    /\ \E n \in DocCounts :
         results' = QueryResult(Len(queries) + 1, n)
    /\ queries' = Append(queries, QueryCall(current_query, "loop", "returned"))
    /\ pc' = "evaluate"
    /\ UNCHANGED <<outsideSearch, config, iteration, iterations, current_query, best_results,
                   best_score, evaluations, returned>>

\* collection.query raises: "except Exception ... break"
CollectionQueryRaises ==
    /\ pc = "query"
    /\ queries' = Append(queries, QueryCall(current_query, "loop", "raised"))
    /\ pc' = OnLoopException
    /\ UNCHANGED <<outsideSearch, config, iteration, iterations, current_query, best_results,
                   best_score, results, evaluations, returned>>

\* evaluate_results returns; the rest of the loop body up to the next call
Evaluate ==
    /\ pc = "evaluate"
    /\ \E resp \in JudgeResponses :
         LET ev == EvaluateResponse(resp, current_query)
             better == IsBetter(ev.score, best_score)
             stop == \/ IsSufficient(ev.score, min_relevance_score)
                     \/ NoRefinement(current_query, ev.refined_query)
         IN /\ evaluations' = Append(evaluations,
                                     EvaluateCall(current_query, resp, "returned"))
            /\ iterations' = Append(iterations,
                   SearchIteration(current_query, results, ev, iteration + 1))
            /\ best_results' = IF better THEN results ELSE best_results
            /\ best_score' = IF better THEN ev.score ELSE best_score
            /\ current_query' = IF stop THEN current_query ELSE ev.refined_query
            /\ iteration' = IF stop \/ RangeExhausted(iteration, max_iterations)
                            THEN iteration ELSE iteration + 1
            /\ pc' = IF stop \/ RangeExhausted(iteration, max_iterations)
                     THEN "finalize" ELSE "query"
    /\ UNCHANGED <<outsideSearch, config, results, queries, returned>>

\* evaluate_results raises while formatting the results, before its try block
\* (_format_results_for_evaluation, e.g. on a document that is None); nothing
\* after the call of evaluate_results can raise once the formatting succeeded
EvaluateRaises ==
    /\ pc = "evaluate"
    /\ evaluations' = Append(evaluations,
                             EvaluateCall(current_query, None, "raised"))
    /\ pc' = OnLoopException
    /\ UNCHANGED <<outsideSearch, config, iteration, iterations, current_query, best_results,
                   best_score, results, queries, returned>>

\* the fallback retrieval after the loop
FallbackQuery ==
    /\ pc = "finalize"
    /\ NeedsFallback(best_results, results)
    /\ \E n \in DocCounts :
         results' = QueryResult(Len(queries) + 1, n)
    /\ queries' = Append(queries, QueryCall(query, "fallback", "returned"))
    /\ pc' = "return"
    /\ UNCHANGED <<outsideSearch, config, iteration, iterations, current_query, best_results,
                   best_score, evaluations, returned>>

\* the fallback retrieval raises: the empty QueryResult is built
FallbackQueryRaises ==
    /\ pc = "finalize"
    /\ NeedsFallback(best_results, results)
    /\ results' = EmptyQueryResult
    /\ queries' = Append(queries, QueryCall(query, "fallback", "raised"))
    /\ pc' = "return"
    /\ UNCHANGED <<outsideSearch, config, iteration, iterations, current_query, best_results,
                   best_score, evaluations, returned>>

\* no fallback is needed
SkipFallback ==
    /\ pc = "finalize"
    /\ ~NeedsFallback(best_results, results)
    /\ pc' = "return"
    /\ UNCHANGED <<outsideSearch, config, iteration, iterations, current_query, best_results,
                   best_score, results, queries, evaluations, returned>>

\* return SearchResult(...)
Return ==
    /\ pc = "return"
    /\ returned' = SearchResult(BestOrResults(best_results, results), best_score,
                                iterations, current_query, query)
    /\ pc' = "done"
    /\ UNCHANGED <<outsideSearch, config, iteration, iterations, current_query, best_results,
                   best_score, results, queries, evaluations>>

Next ==
    \/ CollectionQuery
    \/ CollectionQueryRaises
    \/ Evaluate
    \/ EvaluateRaises
    \/ FallbackQuery
    \/ FallbackQueryRaises
    \/ SkipFallback
    \/ Return

Spec == Init /\ [][Next]_vars

\* ------------------------------------------------- the parser on its own
\* the lines a response text is made of: each prefix with texts that do and do
\* not parse, and a line that starts with none of the prefixes
ResponseLines ==
    {Line("SCORE:", v) : v \in {" 0.85", " 0.4", " high"}}
    \cup {Line("ANALYSIS:", v) : v \in {" good", " bad "}}
    \cup {Line("REFINED_QUERY:", v) : v \in {" None", " NONE", " none", " q1"}}
    \cup {Line("OTHER", "hello")}

\* content.split("\n") of the response texts of up to MaxLines lines
ResponseTexts == UNION {[1..n -> ResponseLines] : n \in 0..MaxLines}

ParseInit ==
    /\ SearchIdle
    /\ FootIdle
    /\ WebIdle
    /\ PromptIdle
    /\ StoreIdle
    /\ CacheIdle
    /\ content \in ResponseTexts
    /\ judged_query \in QueryTexts
    /\ evaluation = None

\* evaluate_results parses the content and returns
ParseContent ==
    /\ evaluation = None
    /\ evaluation' = ParseResponse(content, judged_query)
    /\ UNCHANGED <<outsideParse, content, judged_query>>

ParseNext == ParseContent

SpecParse == ParseInit /\ [][ParseNext]_vars

\* ------------------------------------------------------- format_footnotes
\* mutant: the source is compared and shown with its directories
LastSegment_WholePath(path) == path

\* path.split("/")[-1] on the paths of the model
LastSegment(path) ==
    CASE path = "x/doc.md" -> "doc.md"
      [] path = "x/"       -> ""
      [] OTHER             -> path

\* a metadata dict is a function from the keys it holds to texts
HasText(meta, key) == key \in DOMAIN meta /\ meta[key] # ""

\* meta.get("sanitized_title") or meta.get("top_title") or "Untitled"
MetaTitle(meta) ==
    IF HasText(meta, "sanitized_title") THEN meta["sanitized_title"]
    ELSE IF HasText(meta, "top_title") THEN meta["top_title"]
    ELSE "Untitled"

\* meta.get("source", "unknown.md").split("/")[-1]
MetaSource(meta) ==
    LastSegment(IF "source" \in DOMAIN meta THEN meta["source"] ELSE "unknown.md")

\* f'[{i + 1}] "{title}", `{source}`'
Footnote(n, title, source) == [number |-> n, title |-> title, source |-> source]

\* the for-loop of format_footnotes: (seen, numbered) after the dicts from i on
RECURSIVE CollectFootnotes(_, _, _, _)
CollectFootnotes(metas, i, seen, numbered) ==
    IF i > Len(metas) THEN numbered
    ELSE LET key == <<MetaTitle(metas[i]), MetaSource(metas[i])>>
         IN IF key \notin seen
            THEN CollectFootnotes(metas, i + 1, seen \cup {key},
                     Append(numbered, <<Strip(key[1]), Strip(key[2])>>))
            ELSE CollectFootnotes(metas, i + 1, seen, numbered)

\* format_footnotes: the lines of the string it returns
FormatFootnotes(metas) ==
    LET numbered == CollectFootnotes(metas, 1, {}, <<>>)
    IN [i \in 1..Len(numbered) |-> Footnote(i, numbered[i][1], numbered[i][2])]

\* the metadata dicts of the model: a title in sanitized_title, in top_title, in
\* both or in none, and a source with directories, without, or absent
MetadataDicts ==
    {[sanitized_title |-> t, source |-> p] : t \in {"A", "B", "A "},
                                             p \in {"x/doc.md", "doc.md"}}
    \cup {[sanitized_title |-> t] : t \in {"A", "B"}}
    \cup {[top_title |-> "T", source |-> p] : p \in {"x/doc.md", "doc.md"}}
    \cup {[sanitized_title |-> "", top_title |-> "T", source |-> "doc.md"],
          [sanitized_title |-> "A", top_title |-> "T", source |-> "doc.md"],
          [source |-> "doc.md"], [source |-> "x/"], [other |-> "z"]}

MetadataLists == UNION {[1..n -> MetadataDicts] : n \in 0..MaxMetadatas}

FootInit ==
    /\ SearchIdle
    /\ ParseIdle
    /\ WebIdle
    /\ PromptIdle
    /\ StoreIdle
    /\ CacheIdle
    /\ metadatas \in MetadataLists
    /\ footnotes = None

\* format_footnotes(metadatas) returns
FormatCall ==
    /\ footnotes = None
    /\ footnotes' = [lines |-> FormatFootnotes(metadatas)]
    /\ UNCHANGED <<outsideFoot, metadatas>>

FootNext == FormatCall

SpecFoot == FootInit /\ [][FootNext]_vars

\* ------------------------------------------- the answer prompt of search()
\* the metadata dicts of the retrieved documents in this part of the model
PromptDicts ==
    {[sanitized_title |-> "A", source |-> "doc.md"],
     [sanitized_title |-> "A", source |-> "x/doc.md"],
     [sanitized_title |-> "A ", source |-> "doc.md"],
     [sanitized_title |-> "B", source |-> "doc.md"],
     [other |-> "z"]}

\* the texts of the retrieved documents
DocTexts == {"d1", "d2"}

\* a column of a chroma QueryResult: one row per query text, or None
Rows(row) == [rows |-> <<row>>]

\* search_result.best_results: documents and metadatas in parallel, or None
RetrievedResults ==
    {[documents |-> None, metadatas |-> None],
     [documents |-> Rows(<<"d1">>), metadatas |-> None]}
    \cup UNION {{[documents |-> Rows(d), metadatas |-> Rows(m)] :
                    d \in [1..n -> DocTexts], m \in [1..n -> PromptDicts]} :
                n \in 0..MaxMetadatas}

\* f'{i + 1}. "{item}"' and f"metadata: {metadata_entry}", i counted from 0: the
\* document at position k of the list (counted from 1) gets the number k
PromptEntry(k, item, metadata_entry) ==
    [number |-> k, text |-> item, metadata |-> metadata_entry]

\* the part of system_prompt that search() builds from the results: the
\* numbered documents, then "Footnotes:" and format_footnotes(footnotes_metadata)
AssemblePrompt(res) ==
    LET usable == res.documents # None /\ res.metadatas # None
        items  == IF usable THEN res.documents.rows[1] ELSE <<>>
        footnotes_metadata ==
            IF usable THEN [k \in 1..Len(items) |-> res.metadatas.rows[1][k]]
            ELSE <<>>
    IN [documents |-> [k \in 1..Len(items) |->
                          PromptEntry(k, items[k], footnotes_metadata[k])],
        footnotes |-> FormatFootnotes(footnotes_metadata)]

PromptInit ==
    /\ SearchIdle
    /\ ParseIdle
    /\ FootIdle
    /\ WebIdle
    /\ StoreIdle
    /\ CacheIdle
    /\ retrieved \in RetrievedResults
    /\ system_prompt = None

\* search() assembles the prompt
AssembleCall ==
    /\ system_prompt = None
    /\ system_prompt' = AssemblePrompt(retrieved)
    /\ UNCHANGED <<outsidePrompt, retrieved>>

PromptNext == AssembleCall

SpecPrompt == PromptInit /\ [][PromptNext]_vars

\* ------------------------------------------ the store of chats and messages
\* the number of chats created in a run
MaxChats == 2

\* the number of rows the table messages holds in a run
MaxRows == 3

\* sqlite3.connect() gives a connection with foreign-key enforcement off, and
\* no method of ChatStorage runs PRAGMA foreign_keys = ON on its connection
ForeignKeys == FALSE

\* the ids a caller passes: issued by create_chat or not
StoreChatIds == {ChatId(n) : n \in 1..MaxChats}

Summaries == {"s1"}

\* the (role, content) pairs of the messages written with add_message
StoredTexts == {<<"user", "m1">>, <<"assistant", "a1">>}

\* a row of chats (the timestamps are left out) and a row of messages (its own
\* uuid and the timestamp are left out; the sequence keeps the insertion order)
ChatRow(id, title, summary) == [id |-> id, title |-> title, summary |-> summary]
MessageRow(chat_id, role, text) ==
    [chat_id |-> chat_id, role |-> role, content |-> text]

\* a database: the two tables
Database(chats, messages) == [chats |-> chats, messages |-> messages]

\* SELECT ... FROM chats WHERE id = ? finds a row
HasChat(db, chat_id) == \E r \in db.chats : r.id = chat_id

\* SELECT role, content FROM messages WHERE chat_id = ?
MessagesOf(db, chat_id) ==
    LET rows == SelectSeq(db.messages, LAMBDA r : r.chat_id = chat_id)
    IN [k \in 1..Len(rows) |-> <<rows[k].role, rows[k].content>>]

\* DELETE FROM messages WHERE chat_id = ?
WithoutMessagesOf(db, chat_id) ==
    SelectSeq(db.messages, LAMBDA r : r.chat_id # chat_id)

\* an outcome of a method on a database: the database afterwards and the value
\* returned
Outcome(db, value) == [db |-> db, value |-> value]

\* create_chat with the uuid it drew
CreateChatOn(db, chat_id, title) ==
    Outcome(Database(db.chats \cup {ChatRow(chat_id, title, None)}, db.messages),
            chat_id)

\* add_message: the UPDATE of last_updated touches no modelled column; the INSERT
\* is refused only under foreign-key enforcement, when the chat is missing
AddMessageRefused(db, chat_id) == ForeignKeys /\ ~HasChat(db, chat_id)

AddMessageOn(db, chat_id, role, text) ==
    Outcome(Database(db.chats,
                     Append(db.messages, MessageRow(chat_id, role, text))),
            "message_id")

\* delete_chat: DELETE FROM chats WHERE id = ?; the rows of messages go with it
\* only under foreign-key enforcement (ON DELETE CASCADE)
DeleteChatOn(db, chat_id) ==
    Outcome(Database({r \in db.chats : r.id # chat_id},
                     IF ForeignKeys THEN WithoutMessagesOf(db, chat_id)
                     ELSE db.messages),
            HasChat(db, chat_id))

\* update_summary: UPDATE chats SET summary = ? WHERE id = ?
UpdateSummaryOn(db, chat_id, summary) ==
    Outcome(Database({IF r.id = chat_id
                      THEN ChatRow(r.id, r.title, [text |-> summary]) ELSE r :
                      r \in db.chats},
                     db.messages),
            HasChat(db, chat_id))

\* clear_messages: DELETE FROM messages WHERE chat_id = ?
ClearMessagesOn(db, chat_id) ==
    Outcome(Database(db.chats, WithoutMessagesOf(db, chat_id)),
            MessagesOf(db, chat_id) # <<>>)

\* the calls of replace_with_summary at which sqlite3 may raise
RaisePoints == {"never", "clear_messages", "add_message", "update_summary"}

\* replace_with_summary: clear_messages, add_message, update_summary, each on a
\* connection of its own that commits; the values they return are dropped; an
\* exception of one of them leaves what the calls before it committed and
\* makes the method return False
ReplaceWithSummaryOn(db, chat_id, summary, raised_at) ==
    LET cleared == ClearMessagesOn(db, chat_id).db
        added   == AddMessageOn(cleared, chat_id, "assistant", summary).db
        updated == UpdateSummaryOn(added, chat_id, summary).db
    IN IF raised_at = "clear_messages" THEN Outcome(db, FALSE)
       ELSE IF raised_at = "add_message" \/ AddMessageRefused(cleared, chat_id)
            THEN Outcome(cleared, FALSE)
       ELSE IF raised_at = "update_summary" THEN Outcome(added, FALSE)
       ELSE Outcome(updated, TRUE)

\* the record of a call: the method, its chat id, what it returned and, for
\* replace_with_summary, the summary given and the chat's messages before it
Call(method, chat_id, value) ==
    [method |-> method, chat_id |-> chat_id, value |-> value]
ReplaceCall(chat_id, summary, value, before) ==
    [method |-> "replace_with_summary", chat_id |-> chat_id, value |-> value,
     summary |-> summary, before |-> before]

\* the database of the current state
Db == Database(chats_table, messages_table)

\* the store after a call
Stored(outcome) ==
    /\ chats_table' = outcome.db.chats
    /\ messages_table' = outcome.db.messages

\* ChatStorage(db_path): _initialize_db creates the two empty tables
StoreInit ==
    /\ SearchIdle
    /\ ParseIdle
    /\ FootIdle
    /\ WebIdle
    /\ PromptIdle
    /\ CacheIdle
    /\ chats_table = {}
    /\ messages_table = <<>>
    /\ uuids = 0
    /\ last_call = None

CreateChat ==
    /\ uuids < MaxChats
    /\ uuids' = uuids + 1
    /\ Stored(CreateChatOn(Db, ChatId(uuids + 1), "t"))
    /\ last_call' = Call("create_chat", ChatId(uuids + 1), ChatId(uuids + 1))
    /\ UNCHANGED outsideStore

AddMessage(chat_id, text) ==
    /\ Len(messages_table) < MaxRows
    /\ ~AddMessageRefused(Db, chat_id)
    /\ Stored(AddMessageOn(Db, chat_id, text[1], text[2]))
    /\ last_call' = Call("add_message", chat_id, "message_id")
    /\ UNCHANGED <<outsideStore, uuids>>

DeleteChat(chat_id) ==
    /\ Stored(DeleteChatOn(Db, chat_id))
    /\ last_call' = Call("delete_chat", chat_id, DeleteChatOn(Db, chat_id).value)
    /\ UNCHANGED <<outsideStore, uuids>>

UpdateSummary(chat_id, summary) ==
    /\ Stored(UpdateSummaryOn(Db, chat_id, summary))
    /\ last_call' = Call("update_summary", chat_id,
                         UpdateSummaryOn(Db, chat_id, summary).value)
    /\ UNCHANGED <<outsideStore, uuids>>

ClearMessages(chat_id) ==
    /\ Stored(ClearMessagesOn(Db, chat_id))
    /\ last_call' = Call("clear_messages", chat_id,
                         ClearMessagesOn(Db, chat_id).value)
    /\ UNCHANGED <<outsideStore, uuids>>

ReplaceWithSummary(chat_id, summary) ==
    \E raised_at \in RaisePoints :
        LET outcome == ReplaceWithSummaryOn(Db, chat_id, summary, raised_at)
        IN /\ Len(outcome.db.messages) <= MaxRows
           /\ Stored(outcome)
           /\ last_call' = ReplaceCall(chat_id, summary, outcome.value,
                                       MessagesOf(Db, chat_id))
           /\ UNCHANGED <<outsideStore, uuids>>

StoreNext ==
    \/ CreateChat
    \/ \E c \in StoreChatIds, t \in StoredTexts : AddMessage(c, t)
    \/ \E c \in StoreChatIds : DeleteChat(c)
    \/ \E c \in StoreChatIds, s \in Summaries : UpdateSummary(c, s)
    \/ \E c \in StoreChatIds : ClearMessages(c)
    \/ \E c \in StoreChatIds, s \in Summaries : ReplaceWithSummary(c, s)

SpecStore == StoreInit /\ [][StoreNext]_vars

\* ------------------------------------------------- the model cache (models)
\* the longest list of models a provider returns
MaxModels == 2

Providers == {"ollama", "openai", "gemini"}

\* the k-th model dict of a provider's listing
ModelDict(k) == [name |-> CASE k = 1 -> "m1" [] k = 2 -> "m2" [] OTHER -> "m3"]

\* a list of models, as a value that is not None
ModelList(models) == [list |-> models]

\* what the try block of process_list_models meets: initialize_model_manager
\* raises, list_models raises, or list_models returns a list (empty or not)
Listing(status, models) == [status |-> status, models |-> models]
Listings ==
    {Listing("init_raises", <<>>), Listing("raises", <<>>)}
    \cup {Listing("ok", [k \in 1..n |-> ModelDict(k)]) : n \in 0..MaxModels}

\* the condition of the first if: the cache is used
IsCacheHit(cache, provider, force_refresh) ==
    ~force_refresh /\ cache[provider] # None

ListingUsable_AllowEmpty(listing) == listing.status = "ok"

\* `if not models: ... return None` is not taken and nothing was raised
ListingUsable(listing) == listing.status = "ok" /\ listing.models # <<>>

\* process_list_models on a cache: the cache afterwards, the value returned and
\* whether the provider was asked (the tables printed when not silent change
\* nothing of this)
ProcessListModelsOn(cache, provider, force_refresh, listing) ==
    IF IsCacheHit(cache, provider, force_refresh)
    THEN [cache |-> cache, returned |-> cache[provider], queried |-> FALSE]
    ELSE IF listing.status = "init_raises"
    THEN [cache |-> cache, returned |-> None, queried |-> FALSE]
    ELSE IF ~ListingUsable(listing)
    THEN [cache |-> cache, returned |-> None, queried |-> TRUE]
    ELSE [cache |-> [cache EXCEPT ![provider] = ModelList(listing.models)],
          returned |-> ModelList(listing.models), queried |-> TRUE]

\* the module after import: an empty cache and no model manager
CacheInit ==
    /\ SearchIdle
    /\ ParseIdle
    /\ FootIdle
    /\ WebIdle
    /\ PromptIdle
    /\ StoreIdle
    /\ cached_models = [p \in Providers |-> None]
    /\ manager_set = FALSE
    /\ last_listing = None

ProcessListModels(provider, force_refresh, silent, listing) ==
    LET hit == IsCacheHit(cached_models, provider, force_refresh)
        out == ProcessListModelsOn(cached_models, provider, force_refresh,
                                   listing)
    IN \* get_model_manager can raise only while it still has to build the manager
       /\ listing.status = "init_raises" => ~manager_set
       /\ cached_models' = out.cache
       /\ manager_set' = (manager_set \/ (~hit /\ listing.status # "init_raises"))
       /\ last_listing' = [provider |-> provider, force_refresh |-> force_refresh,
                           silent |-> silent,
                           listing |-> IF out.queried THEN listing ELSE None,
                           queried |-> out.queried, returned |-> out.returned]
       /\ UNCHANGED outsideCache

CacheNext ==
    \E provider \in Providers, force_refresh \in BOOLEAN, silent \in BOOLEAN,
       listing \in Listings :
        ProcessListModels(provider, force_refresh, silent, listing)

SpecCache == CacheInit /\ [][CacheNext]_vars

\* ---------------------------------------------------------------- web chat
\* The server after create_app with the given clients connected: no chat
\* stored, and for every sid the session entry {current_chat_id: None,
\* conversation_history: []} in place (both modules create the entry on the
\* first use of a sid; the list of s is heap[SidRef(s)]).
SidRef(s) == IF s = "s1" THEN 1 ELSE 2

WebStart(clients) ==
    /\ SearchIdle
    /\ ParseIdle
    /\ FootIdle
    /\ PromptIdle
    /\ StoreIdle
    /\ CacheIdle
    /\ module \in Modules
    /\ max_history \in MaxHistories
    /\ chat_sessions = [s \in Sids |-> [current_chat_id |-> None,
                                         conversation_history |-> SidRef(s)]]
    /\ heap = <<<<>>, <<>>>>
    /\ storage = <<>>
    /\ manager = [current_chat_id |-> None, conversation_history |-> 0]
    /\ handler = [s \in Sids |-> IdleHandler]
    /\ connected = [s \in Sids |-> s \in clients]
    /\ events = [s \in Sids |-> <<>>]
    /\ turns = 0

\* every client connected
WebInit == WebStart(Sids)

\* one client connected
WebInitSolo == WebStart({"s1"})

\* the current chat id and the history list the generator of s works on: the
\* attributes of the one chat_manager (libs/web.py), its own locals (commands/web)
CurChat(s) ==
    IF module = SharedManager THEN manager.current_chat_id
    ELSE handler[s].current_chat_id

CurHist(s) ==
    IF module = SharedManager THEN manager.conversation_history
    ELSE handler[s].conversation_history

\* handle_message up to the call of generate_response_stream; one handler per
\* session at a time.  A message of blanks only returns at once.
HandleMessage(s) ==
    /\ handler[s].pc = "idle"
    /\ connected[s]
    /\ turns < MaxTurns
    /\ turns' = turns + 1
    /\ \E raw \in RawMessages(s) :
         LET user_message == Strip(raw) IN
         IF user_message = ""
         THEN /\ handler' = [handler EXCEPT ![s] = IdleHandler]
              /\ events' = [events EXCEPT ![s] = <<>>]
         ELSE /\ handler' = [handler EXCEPT ![s] =
                    [IdleHandler EXCEPT
                        !.pc = IF module = SharedManager THEN "patch" ELSE "start",
                        !.user_message = user_message]]
              /\ events' = [events EXCEPT ![s] =
                    Emit(<<>>, "message_status", [status |-> "processing"],
                         connected[s])]
    /\ UNCHANGED <<outsideWeb, module, max_history, chat_sessions, heap, storage,
                   manager, connected>>

\* libs/web.py: chat_manager.current_chat_id = chat_sessions[sid][...] and
\* chat_manager.conversation_history = chat_sessions[sid][...]
Patch(s) ==
    /\ handler[s].pc = "patch"
    /\ manager' = [current_chat_id |-> chat_sessions[s].current_chat_id,
                   conversation_history |-> chat_sessions[s].conversation_history]
    /\ handler' = [handler EXCEPT ![s].pc = "start"]
    /\ UNCHANGED <<outsideWeb, module, max_history, chat_sessions, heap, storage,
                   connected, events, turns>>

\* the generator starts: the user message is appended to the history list and
\* saved to the storage, which creates a chat when there is no current chat id
AppendUser(s) ==
    /\ handler[s].pc = "start"
    /\ LET cur  == IF module = SharedManager THEN manager.current_chat_id
                   ELSE chat_sessions[s].current_chat_id
           ref  == IF module = SharedManager THEN manager.conversation_history
                   ELSE chat_sessions[s].conversation_history
           save == SaveMessage(storage, cur, "user", handler[s].user_message)
       IN /\ heap' = [heap EXCEPT ![ref] =
                         Append(@, Message("user", handler[s].user_message))]
          /\ storage' = save.storage
          /\ handler' = [handler EXCEPT
                ![s].pc = "generate",
                ![s].new_chat_id = save.new_chat_id,
                ![s].current_chat_id =
                    IF module = SharedManager THEN None ELSE save.current_chat_id,
                ![s].conversation_history =
                    IF module = SharedManager THEN 0 ELSE ref]
          /\ manager' = IF module = SharedManager
                        THEN [manager EXCEPT !.current_chat_id = save.current_chat_id]
                        ELSE manager
    /\ UNCHANGED <<outsideWeb, module, max_history, chat_sessions, connected,
                   events, turns>>

\* collection.query returns and llm_client.chat.completions.create(messages =
\* [system] + conversation_history, stream=True) returns the stream
Generate(s) ==
    /\ handler[s].pc = "generate"
    /\ handler' = [handler EXCEPT
           ![s].pc = "stream",
           ![s].stream = Stream(<<>>, "open"),
           ![s].full_response = "",
           ![s].messages = [list |-> heap[CurHist(s)]]]
    /\ UNCHANGED <<outsideWeb, module, max_history, chat_sessions, heap, storage,
                   manager, connected, events, turns>>

\* collection.query or completions.create raises.  libs/web.py has them inside
\* the try of the generator: the error text is yielded as a chunk and the
\* generator returns None.  commands/web has them before the try: the exception
\* leaves the generator and handle_message emits message_error.
GenerateRaises(s) ==
    /\ handler[s].pc = "generate"
    /\ IF module = SharedManager
       THEN /\ handler' = [handler EXCEPT ![s].pc = "drained",
                                          ![s].returned = None]
            /\ events' = [events EXCEPT ![s] =
                  Emit(@, "message_chunk", [chunk |-> ErrorText(Boom)],
                       connected[s])]
       ELSE /\ handler' = [handler EXCEPT ![s].pc = "idle"]
            /\ events' = [events EXCEPT ![s] =
                  Emit(@, "message_error", [error |-> Boom], connected[s])]
    /\ UNCHANGED <<outsideWeb, module, max_history, chat_sessions, heap, storage,
                   manager, connected, turns>>

\* the next chunk of the stream: a chunk with content is added to full_response
\* and yielded, and handle_message emits it as message_chunk
Chunk(s) ==
    /\ handler[s].pc = "stream"
    /\ Len(handler[s].stream.chunks) < MaxChunks
    /\ \E c \in ChunkTexts :
         LET got == [handler EXCEPT ![s].stream.chunks = Append(@, c),
                                    ![s].full_response = @ \o c]
         IN IF c = ""
            THEN /\ handler' = got
                 /\ UNCHANGED events
            ELSE IF EmitOutcome(connected[s]) = "raised"
            THEN \* the except of handle_message; the generator is never resumed
                 /\ handler' = [got EXCEPT ![s].pc = "idle"]
                 /\ events' = [events EXCEPT ![s] =
                       Append(@, [event |-> "message_error",
                                  data |-> [error |-> Boom],
                                  delivered |-> FALSE])]
            ELSE /\ handler' = got
                 /\ events' = [events EXCEPT ![s] =
                       Emit(@, "message_chunk", [chunk |-> c], connected[s])]
    /\ UNCHANGED <<outsideWeb, module, max_history, chat_sessions, heap, storage,
                   manager, connected, turns>>

\* the stream raises after any number of chunks: except Exception yields the
\* error text and returns None
StreamRaises(s) ==
    /\ handler[s].pc = "stream"
    /\ heap' = [heap EXCEPT ![CurHist(s)] =
                   OnStreamException(@, handler[s].full_response)]
    /\ handler' = [handler EXCEPT ![s].pc = "drained",
                                  ![s].stream.status = "raised",
                                  ![s].returned = None]
    /\ events' = [events EXCEPT ![s] =
          Emit(@, "message_chunk", [chunk |-> ErrorText(Boom)], connected[s])]
    /\ UNCHANGED <<outsideWeb, module, max_history, chat_sessions, storage,
                   manager, connected, turns>>

\* the stream ends: a non-empty full_response is appended to the history list
\* and saved, the history is trimmed into a new list; commands/web then writes
\* the session entry (_update_session_state); the generator returns new_chat_id
Finish(s) ==
    /\ handler[s].pc = "stream"
    /\ LET full    == handler[s].full_response
           ref     == CurHist(s)
           said    == Append(heap[ref], Message("assistant", full))
           save    == SaveMessage(storage, CurChat(s), "assistant", full)
           trimmed == Len(said) > max_history
           newref  == Len(heap) + 1
           endref  == IF full # "" /\ trimmed THEN newref ELSE ref
       IN /\ heap' = IF full = "" THEN heap
                     ELSE IF trimmed
                          THEN Append([heap EXCEPT ![ref] = said],
                                      Trim(said, max_history))
                          ELSE [heap EXCEPT ![ref] = said]
          /\ storage' = IF full = "" THEN storage ELSE save.storage
          /\ manager' =
                IF module = SharedManager /\ full # ""
                THEN [current_chat_id |-> save.current_chat_id,
                      conversation_history |-> endref]
                ELSE manager
          /\ chat_sessions' =
                IF module = PerSession
                THEN [chat_sessions EXCEPT ![s] =
                         [current_chat_id |-> handler[s].current_chat_id,
                          conversation_history |-> endref]]
                ELSE chat_sessions
          /\ handler' = [handler EXCEPT
                ![s].pc = "drained",
                ![s].stream.status = "ended",
                ![s].returned = handler[s].new_chat_id,
                ![s].conversation_history =
                    IF module = PerSession THEN endref ELSE @]
    /\ UNCHANGED <<outsideWeb, module, max_history, connected, events, turns>>

\* handle_message after the for-loop: stream.send(None), libs/web.py writes the
\* attributes of chat_manager back into the session entry, message_complete is
\* emitted and the handler returns: of its locals the model keeps what the
\* generator returned.  (The chat title and chat_title_updated are left out.)
Complete(s) ==
    /\ handler[s].pc = "drained"
    /\ chat_sessions' =
          IF module = SharedManager
          THEN [chat_sessions EXCEPT ![s] =
                   [current_chat_id |-> manager.current_chat_id,
                    conversation_history |-> manager.conversation_history]]
          ELSE chat_sessions
    /\ events' = [events EXCEPT ![s] =
          Emit(@, "message_complete",
               [status |-> "complete",
                newChatId |-> SendAfterLoop(handler[s].returned)],
               connected[s])]
    /\ handler' = [handler EXCEPT ![s] =
          [IdleHandler EXCEPT !.new_chat_id = handler[s].new_chat_id,
                              !.returned = handler[s].returned]]
    /\ UNCHANGED <<outsideWeb, module, max_history, heap, storage, manager,
                   connected, turns>>

\* the client of s goes away while its answer is streamed
Disconnect(s) ==
    /\ connected[s]
    /\ handler[s].pc = "stream"
    /\ connected' = [connected EXCEPT ![s] = FALSE]
    /\ UNCHANGED <<outsideWeb, module, max_history, chat_sessions, heap, storage,
                   manager, handler, events, turns>>

\* what the thread of the handler of s does next
HandlerStep(s) ==
    \/ Patch(s)
    \/ AppendUser(s)
    \/ Generate(s)
    \/ GenerateRaises(s)
    \/ Chunk(s)
    \/ StreamRaises(s)
    \/ Finish(s)
    \/ Complete(s)

WebNext ==
    \E s \in Sids :
        \/ HandleMessage(s)
        \/ HandlerStep(s)
        \/ Disconnect(s)

SpecWeb == WebInit /\ [][WebNext]_vars

\* the server with a single client
SpecWebSolo == WebInitSolo /\ [][WebNext]_vars

\* Socket.IO runs every handler on a thread of its own, the threads are
\* scheduled fairly, and every call a handler makes returns or raises
SpecWebLive == SpecWebSolo /\ \A s \in Sids : WF_vars(HandlerStep(s))

\* ------------------------------------------------------- claim vocabulary
Done == pc = "done"

Max(S) == CHOOSE m \in S : \A x \in S : x <= m

ScoresOf(its) == {its[k].relevance_score : k \in 1..Len(its)}

\* index of the first recorded iteration that has the score m
FirstWithScore(its, m) ==
    CHOOSE k \in 1..Len(its) :
        /\ its[k].relevance_score = m
        /\ \A j \in 1..(k - 1) : its[j].relevance_score # m

\* the calls of collection.query made inside the loop, and after it
LoopQueries == SelectSeq(queries, LAMBDA c : c.place = "loop")
FallbackQueries == SelectSeq(queries, LAMBDA c : c.place = "fallback")

\* the loop is over: no call of collection.query or evaluate_results is ahead,
\* but for the fallback
LoopOver == pc \in {"finalize", "return", "done"}

\* the judge's response carried the line "REFINED_QUERY: None"
SaysNone(resp) ==
    /\ resp # None
    /\ resp.kind = "content"
    /\ \E i \in 1..Len(resp.lines) :
         resp.lines[i] = Line("REFINED_QUERY:", "None")

\* ------------------------------------------------------------------ claims
\* C1 (as claimed; refuted by the code): whenever the search returns with a
\* non-empty iterations list, best_score equals the maximum relevance_score
\* over the recorded iterations, for every sequence of judge scores.
C1_BestScoreIsMax ==
    (Done /\ returned.iterations # <<>>)
        => returned.best_score = Max(ScoresOf(returned.iterations))

\* C2 (as claimed; refuted by the code): whenever the iterations list is
\* non-empty, best_results is the result set of the earliest recorded iteration
\* whose relevance_score is the maximum over all recorded iterations.
C2_BestResultsIsEarliestMax ==
    (Done /\ returned.iterations # <<>>)
        => LET its == returned.iterations
           IN returned.best_results
                  = its[FirstWithScore(its, Max(ScoresOf(its)))].results

\* C3: a round whose score is greater than or equal to min_relevance_score is
\* the last round: it is the last recorded iteration, the loop is over, and no
\* call of collection.query or evaluate_results was made after it.
C3_StopsAtFirstSufficientRound ==
    \A k \in 1..Len(iterations) :
        iterations[k].relevance_score >= min_relevance_score
            => /\ k = Len(iterations)
               /\ LoopOver
               /\ Len(queries) = k
               /\ Len(evaluations) = k

\* C3 witness: min_relevance_score = 0.7, max_iterations = 3 and the scores
\* 0.4 then 0.75: the search has returned after exactly 2 rounds.
C3_Witness ==
    /\ Done
    /\ min_relevance_score = 70
    /\ max_iterations = 3
    /\ Len(returned.iterations) = 2
    /\ returned.iterations[1].relevance_score = 40
    /\ returned.iterations[2].relevance_score = 75
    /\ returned.iterations[1].refined_query # returned.iterations[1].query
    /\ Len(queries) = 2
    /\ Len(evaluations) = 2

\* C4: a round whose refined query equals its query, and in particular a round
\* in which the judge answered "REFINED_QUERY: None", is the last round: it is
\* the last recorded iteration, the loop is over, and no call of
\* collection.query or evaluate_results was made after it.
C4_StopsWithoutRefinement ==
    /\ \A k \in 1..Len(iterations) :
         iterations[k].refined_query = iterations[k].query
            => /\ k = Len(iterations)
               /\ LoopOver
               /\ Len(queries) = k
               /\ Len(evaluations) = k
    /\ \A k \in 1..Len(evaluations) :
         SaysNone(evaluations[k].response)
            => /\ k = Len(iterations)
               /\ iterations[k].refined_query = iterations[k].query
               /\ LoopOver
               /\ Len(queries) = k
               /\ Len(evaluations) = k

\* C4 witness: the judge answers "REFINED_QUERY: None" with an insufficient
\* score on round 1 of a search with max_iterations = 3: one iteration.
C4_Witness ==
    /\ Done
    /\ max_iterations = 3
    /\ Len(evaluations) = 1
    /\ SaysNone(evaluations[1].response)
    /\ Len(returned.iterations) = 1
    /\ returned.iterations[1].relevance_score = 40
    /\ returned.iterations[1].relevance_score < min_relevance_score

\* round 1 was aborted by an exception in its retrieval or in its judge step
Round1Retrieval == Len(queries) >= 1 /\ queries[1].outcome = "raised"
Round1Judge == Len(evaluations) >= 1 /\ evaluations[1].outcome = "raised"

Round2RetrievalRaised ==
    /\ Len(queries) >= 2
    /\ queries[1].outcome = "returned"
    /\ queries[2] = QueryCall(iterations[1].refined_query, "loop", "raised")
    /\ Len(iterations) >= 1

\* C6: when the retrieval of round 2 raises after round 1 completed, the search
\* does not raise but returns a SearchResult whose best_results is the result
\* set retrieved in round 1 and whose iterations hold round 1 only, whatever
\* the score of round 1.
C6_Round2RetrievalFailure ==
    Round2RetrievalRaised =>
        /\ pc # "raised"
        /\ Done =>
             /\ returned # None
             /\ Len(returned.iterations) = 1
             /\ returned.iterations[1].iteration = 1
             /\ returned.best_results = returned.iterations[1].results
             /\ returned.best_results.call = 1

\* C6 witness: round 1 scored 0.0, round 2's retrieval raised, and the search
\* has returned.
C6_Witness ==
    /\ Done
    /\ Round2RetrievalRaised
    /\ returned.iterations[1].relevance_score = 0
    /\ Len(returned.best_results.documents[1]) = TopK

\* the fallback retrieval was made and raised
FallbackRaised ==
    /\ FallbackQueries # <<>>
    /\ FallbackQueries[1].outcome = "raised"

\* C7: no exception leaves the search and the search always goes on to return;
\* the SearchResult returned has its five fields set and a best_results that
\* is not None; when the fallback retrieval raised, best_results has empty
\* document, metadata and distance lists and best_score is 0.0.
C7_AlwaysWellFormedResult ==
    /\ pc # "raised"
    /\ ~Done => ENABLED Next
    /\ Done =>
         /\ returned # None
         /\ DOMAIN returned = {"best_results", "best_score", "iterations",
                               "final_query", "original_query"}
         /\ returned.best_results # None
         /\ DOMAIN returned.best_results
                = {"call", "documents", "metadatas", "distances"}
         /\ returned.best_score \in Int
         /\ Len(returned.iterations) \in 0..max_iterations
         /\ returned.final_query \in QueryTexts
         /\ returned.original_query = query
         /\ FallbackRaised =>
              /\ Len(returned.best_results.documents[1]) = 0
              /\ Len(returned.best_results.metadatas[1]) = 0
              /\ Len(returned.best_results.distances[1]) = 0
              /\ returned.best_score = ZeroScore
              /\ returned.iterations = <<>>

\* C7 witness: the retrieval of round 1 and the fallback retrieval both raised,
\* and the search has returned.
C7_Witness ==
    /\ Done
    /\ Len(queries) = 2
    /\ queries[1] = QueryCall(query, "loop", "raised")
    /\ queries[2] = QueryCall(query, "fallback", "raised")
    /\ returned.best_results = EmptyQueryResult

\* what a fallback retrieval is: one call with the original query, after which
\* the judge is not called and no iteration is recorded, and whose result (the
\* empty result if it raised) is returned with best_score 0.0
FallbackDone ==
    /\ Len(FallbackQueries) = 1
    /\ queries[Len(queries)].place = "fallback"
    /\ queries[Len(queries)].query_text = query
    /\ \A k \in 1..Len(evaluations) : evaluations[k].outcome = "raised"
    /\ returned.iterations = <<>>
    /\ returned.best_score = ZeroScore
    /\ returned.best_results =
           IF queries[Len(queries)].outcome = "returned"
           THEN results ELSE EmptyQueryResult
    /\ returned.best_results # EmptyQueryResult
           => returned.best_results.call = Len(queries)

\* C8 (as claimed; refuted by the code): when round 1 is aborted by an exception
\* in the retrieval step or in the judge step, exactly one fallback retrieval
\* is made and its result returned with best_score 0.0; in every other case no
\* fallback retrieval is made.
C8_FallbackOnAnyRound1Abort ==
    Done =>
        /\ (Round1Retrieval \/ Round1Judge) => FallbackDone
        /\ ~(Round1Retrieval \/ Round1Judge) => FallbackQueries = <<>>

\* C8 (amended): when round 1 is aborted by an exception in its retrieval step,
\* exactly one fallback retrieval with the original query is made, the judge is
\* not called on it, no iteration is recorded and its result (the empty result
\* if it raises too) is returned with best_score 0.0; in every other case, also
\* when the judge step of round 1 raised, no fallback retrieval is made, and
\* after a raise in round 1's judge step the result retrieved in round 1 is
\* returned with best_score 0.0 and no iteration.
C8_FallbackOnRound1RetrievalFailure ==
    /\ FallbackQueries # <<>> => Round1Retrieval /\ Len(FallbackQueries) = 1
    /\ Done =>
         /\ Round1Retrieval => FallbackDone
         /\ ~Round1Retrieval => FallbackQueries = <<>>
         /\ Round1Judge =>
              /\ Len(queries) = 1
              /\ returned.best_results = QueryResult(1, Len(results.documents[1]))
              /\ returned.best_results.call = 1
              /\ returned.best_score = ZeroScore
              /\ returned.iterations = <<>>

\* C8 witness: the retrieval of round 1 raised, the fallback retrieval returned
\* documents, and they were returned.
C8_Witness ==
    /\ Done
    /\ Round1Retrieval
    /\ queries[2] = QueryCall(query, "fallback", "returned")
    /\ returned.best_results = QueryResult(2, TopK)

\* C9 (as claimed; refuted by the code): whenever iterations is non-empty,
\* final_query is the query of the last executed round; a refined query
\* proposed in the last round is not adopted.
C9_FinalQueryIsLastRoundQuery ==
    (Done /\ returned.iterations # <<>>)
        => returned.final_query = LoopQueries[Len(LoopQueries)].query_text

\* the loop was aborted by an exception raised in its last round
LoopAborted ==
    \/ LoopQueries # <<>> /\ LoopQueries[Len(LoopQueries)].outcome = "raised"
    \/ evaluations # <<>> /\ evaluations[Len(evaluations)].outcome = "raised"

\* C10 (as claimed; refuted by the code): when the retrieval or the judge step
\* of round n raises, the round is not retried, no round n+1 is started, no
\* iteration is recorded for round n, and the best_score and best_results
\* returned are those of the best of rounds 1..n-1.
C10_AbortPreservesBestSoFar ==
    (Done /\ LoopAborted) =>
        LET n == Len(LoopQueries)
            its == returned.iterations
        IN /\ Len(its) = n - 1
           /\ Len(evaluations) <= n
           /\ n >= 2 =>
                /\ returned.best_score = Max(ScoresOf(its))
                /\ returned.best_results
                       = its[FirstWithScore(its, Max(ScoresOf(its)))].results
\* the judge's model call failed: it raised, or returned no choices or no content
LLMFailed(resp) == resp = LLMRaises \/ resp = LLMEmpty

\* C11: when the judge's model call fails in round n, evaluate_results returns
\* (0.0, an error text, the current query) instead of raising; round n is
\* recorded with score 0.0 and a refined query equal to its query, and it is
\* the last round: no retrieval or judge call follows it.
C11_JudgeFailureEndsLoop ==
    \A k \in 1..Len(evaluations) :
        LLMFailed(evaluations[k].response) =>
            /\ evaluations[k].outcome = "returned"
            /\ pc # "raised"
            /\ k = Len(iterations)
            /\ iterations[k].relevance_score = 0
            /\ iterations[k].analysis \in {"Evaluation error", "Evaluation failed"}
            /\ iterations[k].refined_query = iterations[k].query
            /\ iterations[k].query = evaluations[k].query_text
            /\ LoopOver
            /\ Len(queries) = k
            /\ Len(evaluations) = k

\* C11 witness: the judge's model call raised in round 2 of a search that may
\* run 3 rounds, and the search has returned with 2 iterations.
C11_Witness ==
    /\ Done
    /\ max_iterations = 3
    /\ Len(evaluations) = 2
    /\ evaluations[2].response = LLMRaises
    /\ Len(returned.iterations) = 2
    /\ returned.iterations[2].relevance_score = 0
    /\ returned.iterations[2].refined_query = "q1"
\* the indices of the lines of a text that start with the prefix p
LinesWith(text, p) == {i \in 1..Len(text) : text[i].prefix = p}

First(S) == CHOOSE i \in S : \A j \in S : i <= j
Last(S) == CHOOSE i \in S : \A j \in S : j <= i

\* what a claim reads off one line: the number, the text, the query proposed
NumberOn(v) ==
    CASE v = " 0.85" -> 85
      [] v = " 0.4"  -> 40
      [] OTHER       -> 0
TextOn(v) ==
    CASE v = " good" -> "good"
      [] v = " bad " -> "bad"
      [] v = " q1"   -> "q1"
      [] OTHER       -> v
IsNoneText(v) == v \in {" None", " NONE", " none"}

\* C12: for a response text, the parsed score is the number on the SCORE: line
\* (0.0 when the line is missing or holds no number), the analysis is the text
\* of the ANALYSIS: line (the placeholder when missing), and the refined query
\* is the text of the REFINED_QUERY: line (the current query when missing or
\* "none" in any letter case); each said of a prefix that starts one line at most.
C12_ParsedEvaluation ==
    evaluation # None =>
        LET sc == LinesWith(content, "SCORE:")
            an == LinesWith(content, "ANALYSIS:")
            rq == LinesWith(content, "REFINED_QUERY:")
        IN /\ DOMAIN evaluation = {"score", "analysis", "refined_query"}
           /\ sc = {} => evaluation.score = 0
           /\ Cardinality(sc) = 1 =>
                evaluation.score = NumberOn(content[First(sc)].value)
           /\ an = {} => evaluation.analysis = "No analysis provided"
           /\ Cardinality(an) = 1 =>
                evaluation.analysis = TextOn(content[First(an)].value)
           /\ rq = {} => evaluation.refined_query = judged_query
           /\ Cardinality(rq) = 1 =>
                evaluation.refined_query =
                    IF IsNoneText(content[First(rq)].value)
                    THEN judged_query
                    ELSE TextOn(content[First(rq)].value)

\* C12 witness: "SCORE: 0.85 / ANALYSIS: good / REFINED_QUERY: None" was parsed
\* for the query q1 and gave (0.85, "good", q1).
C12_Witness ==
    /\ content = <<Line("SCORE:", " 0.85"), Line("ANALYSIS:", " good"),
                   Line("REFINED_QUERY:", " None")>>
    /\ judged_query = "q1"
    /\ evaluation = [score |-> 85, analysis |-> "good", refined_query |-> "q1"]

\* C13 (as claimed; refuted by the code): the score, the analysis and the
\* refined query are those of the first line that starts with the respective
\* prefix, whatever the order of the prefixes.
C13_FirstOccurrenceWins ==
    evaluation # None =>
        LET sc == LinesWith(content, "SCORE:")
            an == LinesWith(content, "ANALYSIS:")
            rq == LinesWith(content, "REFINED_QUERY:")
        IN /\ sc # {} => evaluation.score = NumberOn(content[First(sc)].value)
           /\ an # {} => evaluation.analysis = TextOn(content[First(an)].value)
           /\ rq # {} =>
                evaluation.refined_query =
                    IF IsNoneText(content[First(rq)].value)
                    THEN judged_query
                    ELSE TextOn(content[First(rq)].value)

\* C13 (amended): the parser is order-tolerant and the last occurrence of a
\* prefix wins: the score and the analysis are those of the last line that
\* starts with SCORE: and with ANALYSIS: (score 0.0 when that line holds no
\* number), and the refined query is that of the last REFINED_QUERY: line whose
\* value is not "none" (the current query when there is no such line).
C13_LastOccurrenceWins ==
    evaluation # None =>
        LET sc == LinesWith(content, "SCORE:")
            an == LinesWith(content, "ANALYSIS:")
            rq == {i \in LinesWith(content, "REFINED_QUERY:") :
                      ~IsNoneText(content[i].value)}
        IN /\ evaluation.score =
                  IF sc = {} THEN 0 ELSE NumberOn(content[Last(sc)].value)
           /\ evaluation.analysis =
                  IF an = {} THEN "No analysis provided"
                  ELSE TextOn(content[Last(an)].value)
           /\ evaluation.refined_query =
                  IF rq = {} THEN judged_query
                  ELSE TextOn(content[Last(rq)].value)

\* C13 witness: a text with two SCORE: lines and two ANALYSIS: lines, the
\* REFINED_QUERY: line coming first, was parsed: the later lines' values are
\* returned.
C13_Witness ==
    /\ content = <<Line("REFINED_QUERY:", " q1"), Line("SCORE:", " 0.85"),
                   Line("ANALYSIS:", " good"), Line("ANALYSIS:", " bad ")>>
    /\ judged_query = "q0"
    /\ evaluation = [score |-> 85, analysis |-> "bad", refined_query |-> "q1"]
\* what a claim reads off a metadata dict: its title, and its source reduced to
\* the last '/'-delimited segment
TitleOf(meta) ==
    IF "sanitized_title" \in DOMAIN meta /\ meta["sanitized_title"] # ""
    THEN meta["sanitized_title"]
    ELSE IF "top_title" \in DOMAIN meta THEN meta["top_title"] ELSE "Untitled"
FileOf(meta) ==
    IF "source" \notin DOMAIN meta THEN "unknown.md"
    ELSE IF meta["source"] \in {"x/doc.md", "doc.md"} THEN "doc.md"
    ELSE IF meta["source"] = "x/" THEN "" ELSE meta["source"]
PairOf(meta) == <<TitleOf(meta), FileOf(meta)>>

\* the text shown for a title: the title without surrounding blanks
Shown(t) == IF t = "A " THEN "A" ELSE t

\* the index at which the pair of the i-th dict appears first
FirstAppearance(metas, i) ==
    First({j \in 1..Len(metas) : PairOf(metas[j]) = PairOf(metas[i])})

SessHist(s) == heap[chat_sessions[s].conversation_history]

\* the texts of the user messages of a list of messages
UserTextsIn(list) ==
    {list[i].content : i \in {j \in 1..Len(list) : list[j].role = "user"}}

\* the stored chat the session entry of s names, empty when it names none
SessChat(s) ==
    IF chat_sessions[s].current_chat_id = None THEN <<>>
    ELSE storage[chat_sessions[s].current_chat_id.id]

\* C15: under any interleaving of the handlers of different sessions, a message
\* of session s is never in the history of another session t and never stored
\* under the chat id of t.
C15_SessionIsolation ==
    \A s \in Sids : \A t \in Sids \ {s} :
        /\ UserText(s) \notin UserTextsIn(SessHist(t))
        /\ UserText(s) \notin UserTextsIn(SessChat(t))

\* the same for the module that passes the sid to the manager
C15_PerSessionModule == module = PerSession => C15_SessionIsolation

\* the last message of a non-empty list
LastOf(list) == list[Len(list)]

\* this step appends an assistant message to the list
GainsAssistant(old, new) ==
    /\ new # old
    /\ new # <<>>
    /\ LastOf(new).role = "assistant"

\* this step is the end of the stream of s without an exception, and the
\* list gains the full assembled text of that stream as one assistant message
AppendsFullText(s, old, new) ==
    /\ handler[s].pc = "stream"
    /\ handler'[s].stream.status = "ended"
    /\ Concat(handler[s].stream.chunks) # ""
    /\ new = Append(old, Message("assistant", Concat(handler[s].stream.chunks)))

\* the chat c of the storage before this step, empty when the step creates it
ChatBefore(c) == IF c \in DOMAIN storage THEN storage[c] ELSE <<>>

\* C16: an assistant message is appended to a conversation history, and saved
\* to the storage, only by the step that ends a model stream without an
\* exception, and then as the full assembled text of that stream; the step in
\* which a stream raises, after any number of forwarded chunks, adds nothing to
\* any history or stored chat.
C16_AssistantOnlyAfterCompleteStream ==
    [][/\ \A r \in DOMAIN heap :
             GainsAssistant(heap[r], heap'[r])
                 => \E s \in Sids : AppendsFullText(s, heap[r], heap'[r])
       /\ \A c \in DOMAIN storage' :
             GainsAssistant(ChatBefore(c), storage'[c])
                 => \E s \in Sids : AppendsFullText(s, ChatBefore(c), storage'[c])
       /\ \A s \in Sids :
             (handler[s].pc = "stream" /\ handler'[s].stream.status = "raised")
                 => heap' = heap /\ storage' = storage]_vars

\* a stream has raised after a chunk was forwarded, and the history of the
\* session ends with the user message of the turn
C16_Witness ==
    \E s \in Sids :
        /\ module = PerSession
        /\ handler[s].pc = "drained"
        /\ handler[s].stream.status = "raised"
        /\ handler[s].full_response # ""
        /\ \E i \in 1..Len(events[s]) :
              events[s][i].event = "message_chunk" /\ events[s][i].data.chunk = "a"
        /\ LastOf(SessHist(s)) = Message("user", UserText(s))

\* C17: the conversation history of a session holds at most max_history
\* messages after each turn, and so does the history passed to each generation
\* call.
C17_HistoryBounded ==
    \A s \in Sids :
        /\ handler[s].pc = "idle" => Len(SessHist(s)) <= max_history
        /\ handler[s].messages # None
              => Len(handler[s].messages.list) <= max_history

\* a handler of s has run and returned
TurnOver(s) == handler[s].pc = "idle" /\ events[s] # <<>>

\* the turn of s emitted something to read: a chunk of text (answer text, or
\* the error text the generator yields) or a message_error
ShownSomething(s) ==
    \E i \in 1..Len(events[s]) :
        \/ events[s][i].event = "message_chunk" /\ events[s][i].data.chunk # ""
        \/ events[s][i].event = "message_error"

\* C18: no chat turn completes with an empty answer and no error indication:
\* whenever the generation fails or gives no answer text, the caller receives a
\* non-empty error or placeholder message.
C18_NoSilentEmptyAnswer ==
    \A s \in Sids : TurnOver(s) => ShownSomething(s)

\* the generation call of the turn of s has been issued and its stream is open
Streaming(s) == handler[s].pc = "stream"

\* the generator of s has run to its end; unless the stream raised or gave no
\* text, the full assistant message is the last of the session's history
Finalized(s) ==
    /\ handler[s].pc = "drained"
    /\ \/ handler[s].stream.status = "raised"
       \/ handler[s].full_response = ""
       \/ /\ SessHist(s) # <<>>
          /\ LastOf(SessHist(s)) =
                Message("assistant", Concat(handler[s].stream.chunks))

\* C19: in libs/commands/web/web.py, once the generation call of a turn has been
\* issued the turn is eventually finalized, whether or not the client is still
\* there: if the stream ends without an exception and with text, the full
\* assistant message is appended to the history of the session.
C19_TurnEventuallyFinalized ==
    \A s \in Sids : (module = PerSession /\ Streaming(s)) ~> Finalized(s)

\* the client went away while chunks were still being forwarded, and the full
\* assistant message is in the history of its session
C19_Witness ==
    \E s \in Sids :
        /\ module = PerSession
        /\ ~connected[s]
        /\ handler[s].pc = "drained"
        /\ handler[s].stream.status = "ended"
        /\ \E i \in 1..Len(events[s]) :
              events[s][i].event = "message_chunk" /\ ~events[s][i].delivered
        /\ LastOf(SessHist(s)) =
              Message("assistant", Concat(handler[s].stream.chunks))

\* the handler of s has emitted message_complete and returned
TurnComplete(s) ==
    /\ TurnOver(s)
    /\ LastOf(events[s]).event = "message_complete"

\* C20: when the turn created a new stored chat, the message_complete event of
\* the turn carries the id of that chat as newChatId.
C20_NewChatIdDelivered ==
    \A s \in Sids :
        (TurnComplete(s) /\ handler[s].new_chat_id # None)
            => LastOf(events[s]).data.newChatId = handler[s].new_chat_id

\* ---------------------------------------------------- claims C21 .. C30
\* its is a chain that starts at the original query: record k is numbered k,
\* and asks what the record before it proposed
IsChain(its, original) ==
    /\ Len(its) >= 1 => its[1].query = original
    /\ \A k \in 1..Len(its) : its[k].iteration = k
    /\ \A k \in 2..Len(its) : its[k].query = its[k - 1].refined_query

IsPrefix(a, b) == Len(a) <= Len(b) /\ SubSeq(b, 1, Len(a)) = a

\* C22: the recorded iteration history is an append-only chain: a step only
\* appends to it, never edits or removes a record; it starts at the original
\* query, record k (1-based) has iteration = k, and every later record asks
\* the refined query of the record before it; the returned SearchResult
\* carries that history.
C22_IterationsAppendOnlyChain ==
    [][/\ IsPrefix(iterations, iterations')
       /\ IsChain(iterations', query)
       /\ returned' # None =>
             /\ returned'.iterations = iterations
             /\ IsChain(returned'.iterations, returned'.original_query)]_vars

\* a search has returned two records, the second for a refined query
C22_Witness ==
    /\ Done
    /\ Len(returned.iterations) >= 2
    /\ returned.iterations[2].query # returned.iterations[1].query

\* C24: whenever the returned iterations list is non-empty, the returned
\* best_results is the result set stored in one of the recorded iterations.
C24_BestResultsWasRecorded ==
    (Done /\ returned.iterations # <<>>)
        => \E k \in 1..Len(returned.iterations) :
               returned.best_results = returned.iterations[k].results

\* how far a position of the search is from its return
Rank(p) ==
    CASE p = "query" -> 4
      [] p = "evaluate" -> 3
      [] p = "finalize" -> 2
      [] p = "return" -> 1
      [] OTHER -> 0

\* an upper bound of the number of steps the search still takes
StepsLeft == 2 * (max_iterations - iteration) + Rank(pc)

\* the calls made so far stay within the bounds of the claim
CallsWithinBounds ==
    /\ Len(LoopQueries) <= max_iterations
    /\ Len(FallbackQueries) <= 1
    /\ Len(evaluations) <= Len(LoopQueries)
    /\ Len(queries) <= Max({max_iterations, 2})

\* C25: every invocation of the search terminates, whatever the retrieval and
\* the judge return or raise: until it has returned the search can always take
\* a step, every step brings it closer to the return, and it makes at most
\* max_iterations retrieval calls in the loop, at most one fallback retrieval,
\* at most one judge call per loop retrieval and at most max(max_iterations, 2)
\* retrieval calls in total.
C25_TerminatesWithinCallBounds ==
    /\ [](StepsLeft \in Nat /\ CallsWithinBounds)
    /\ [](~Done => ENABLED <<Next>>_vars)
    /\ [][StepsLeft' < StepsLeft]_vars

\* a search with the largest max_iterations has returned after using every
\* round, each with its retrieval and its judge call
C25_Witness ==
    /\ Done
    /\ max_iterations = MaxIterations
    /\ Len(LoopQueries) = max_iterations
    /\ Len(evaluations) = max_iterations

\* a search has returned after the fallback retrieval
C25_FallbackWitness == Done /\ Len(FallbackQueries) = 1 /\ Len(queries) = 2

\* C28: the footnote lines format_footnotes renders are pairwise distinct in
\* the title and the source they show.
C28_RenderedFootnotesDistinct ==
    footnotes # None =>
        \A i \in 1..Len(footnotes.lines) : \A j \in 1..Len(footnotes.lines) :
            i # j => <<footnotes.lines[i].title, footnotes.lines[i].source>>
                         # <<footnotes.lines[j].title, footnotes.lines[j].source>>

\* the documents the prompt was assembled from, and their metadata
RetrievedItems ==
    IF retrieved.documents = None \/ retrieved.metadatas = None THEN <<>>
    ELSE retrieved.documents.rows[1]

RetrievedMetas ==
    IF retrieved.documents = None \/ retrieved.metadatas = None THEN <<>>
    ELSE retrieved.metadatas.rows[1]

\* the footnote entries of the prompt that show the (title, source) pair of meta
EntriesFor(meta) ==
    {n \in 1..Len(system_prompt.footnotes) :
        <<system_prompt.footnotes[n].title, system_prompt.footnotes[n].source>>
            = <<Shown(TitleOf(meta)), FileOf(meta)>>}

\* C23: in the assembled prompt the documents are numbered 1..n by their
\* position in the retrieved list, and the footnote block holds, for every
\* document of the prompt, exactly one entry that carries the (title, source)
\* pair of that document, so the footnote count m is at most n.
C23_PromptNumberingAndFootnotes ==
    system_prompt # None =>
        /\ Len(system_prompt.documents) = Len(RetrievedItems)
        /\ \A k \in 1..Len(RetrievedItems) :
              /\ system_prompt.documents[k].number = k
              /\ system_prompt.documents[k].text = RetrievedItems[k]
              /\ Cardinality(EntriesFor(RetrievedMetas[k])) = 1
        /\ Len(system_prompt.footnotes) <= Len(RetrievedItems)

\* C21: after delete_chat(chat_id) has returned True the store holds no chat
\* row with that id and no message row whose chat_id is that id.
C21_DeleteChatDeletesMessages ==
    (last_call # None /\ last_call.method = "delete_chat" /\ last_call.value) =>
        /\ ~HasChat(Db, last_call.chat_id)
        /\ MessagesOf(Db, last_call.chat_id) = <<>>

\* the summary field of the chat, None when the chat is missing
SummaryOf(db, chat_id) ==
    IF HasChat(db, chat_id)
    THEN (CHOOSE r \in db.chats : r.id = chat_id).summary
    ELSE None

\* C29: when replace_with_summary(chat_id, s) has returned True the chat exists
\* and has exactly one message, an assistant message with content s, and its
\* summary field is s; when it has returned False the chat's messages are what
\* they were before the call.
C29_ReplaceWithSummaryAllOrNothing ==
    (last_call # None /\ last_call.method = "replace_with_summary") =>
        IF last_call.value
        THEN /\ HasChat(Db, last_call.chat_id)
             /\ MessagesOf(Db, last_call.chat_id)
                    = <<<<"assistant", last_call.summary>>>>
             /\ SummaryOf(Db, last_call.chat_id) = [text |-> last_call.summary]
        ELSE MessagesOf(Db, last_call.chat_id) = last_call.before

\* C30: the model cache only ever holds non-empty lists that a successful
\* listing of that provider returned; a call with force_refresh false and an
\* entry present does not ask the provider and returns the cached list; a
\* listing that fails or returns no models makes the call return None and
\* leaves every entry of the cache, of that provider and of the others, as it
\* was.
C30_CacheHoldsSuccessfulListings ==
    /\ [](\A p \in Providers :
            cached_models[p] # None => cached_models[p].list # <<>>)
    /\ [][LET call == last_listing'
              p    == call.provider
          IN /\ \A q \in Providers :
                   cached_models'[q] # cached_models[q] =>
                       /\ q = p
                       /\ call.queried
                       /\ call.listing.status = "ok"
                       /\ call.listing.models # <<>>
                       /\ cached_models'[q] = ModelList(call.listing.models)
             /\ (~call.force_refresh /\ cached_models[p] # None) =>
                       /\ ~call.queried
                       /\ call.returned = cached_models[p]
                       /\ cached_models' = cached_models
             /\ (call.queried /\ (call.listing.status # "ok"
                                     \/ call.listing.models = <<>>)) =>
                       /\ call.returned = None
                       /\ cached_models' = cached_models]_vars

\* a forced listing has failed while the provider has an entry, which is kept
C30_Witness ==
    /\ last_listing # None
    /\ last_listing.force_refresh
    /\ last_listing.queried
    /\ last_listing.returned = None
    /\ cached_models[last_listing.provider] # None
    /\ \E q \in Providers \ {last_listing.provider} : cached_models[q] # None

\* a call was answered from the cache
C30_HitWitness ==
    /\ last_listing # None
    /\ ~last_listing.queried
    /\ last_listing.returned # None

\* every user message of the list is followed by an assistant message
EveryUserAnswered(list) ==
    \A i \in 1..Len(list) :
        list[i].role = "user" =>
            /\ i < Len(list)
            /\ list[i + 1].role = "assistant"

\* C26: a chat turn that ends in an error or without an answer leaves the
\* conversation history as it was before the turn, without the turn's user
\* message, so that once a turn is over the history of the session holds no
\* user message without a following assistant message (libs/commands/web/web.py).
C26_FailedTurnLeavesHistory ==
    module = PerSession =>
        \A s \in Sids : handler[s].pc = "idle" => EveryUserAnswered(SessHist(s))

\* the stored chats that hold a message the turns of s wrote
ChatsOf(s) ==
    {c \in 1..Len(storage) : UserText(s) \in UserTextsIn(storage[c])}

\* C27: after handle_message has finished a turn of a session (normally or
\* through an error path) every message the turn stored belongs to the chat
\* the session entry names as current_chat_id, so that the turns of a session
\* that is never reset or switched create at most one chat
\* (libs/commands/web/web.py).
C27_StoredUnderCurrentChat ==
    module = PerSession =>
        \A s \in Sids :
            handler[s].pc = "idle" =>
                /\ \A c \in ChatsOf(s) :
                      chat_sessions[s].current_chat_id = ChatId(c)
                /\ Cardinality(ChatsOf(s)) <= 1

====
